---------------------------- MODULE Spec2Model ----------------------------
(***************************************************************************)
(* Model of the gotranslate lambda handler (translate/main.go, html.go).   *)
(*                                                                         *)
(* A Go string is a sequence of one-character strings; "" is << >>.        *)
(* handler.handle is the main goroutine; every closure handed to           *)
(* errgroup.Go is a task with its own position and captured variables.     *)
(* The collaborators (DynamoDB, Translate) are interfaces: a call's        *)
(* outcome is a nondeterministic choice, the cache contents are state.     *)
(***************************************************************************)
EXTENDS Integers, Sequences, FiniteSets, TLC

VARIABLES
    event,                \* the inbound request: body validity and decoded fields
    languages,            \* what the provider's ListLanguages returns
    cache,                \* the external cache table: a set of CacheItem, one per Hash
    faultsLeft,           \* how many more collaborator calls of the batch may fail
    pc,                   \* position of handle: "start", "launch", "done"
    response,             \* what handle returned
    htmlContent,          \* handle's local htmlContent
    htmlTokens,           \* handle's local htmlTokens
    sentences,            \* handle's local sentences
    wordCounts,           \* handle's local wordCounts
    translatedSentences,  \* handle's local translatedSentences (the result slots)
    task,                 \* the goroutines of the errgroup, by launch order
    launched,             \* how many iterations of the launch loop have run
    groupErr,             \* errgroup's err (set once)
    cancelled,            \* whether groupCtx is cancelled
    listed,               \* history: the outcome of ListLanguages, "none" before
    calls,                \* history: collaborator calls started
    writes,               \* history: for each slot, the tasks that wrote it
    outOfOrder,           \* history: a task returned while an earlier one ran
    previous,             \* history: what the invocation before this one returned
    steps                 \* history: reconstructHTML's reads of translatedSentences

vars == <<event, languages, cache, faultsLeft, pc, response, htmlContent,
          htmlTokens, sentences, wordCounts, translatedSentences, task,
          launched, groupErr, cancelled, listed, calls, writes, outOfOrder,
          previous, steps>>

(***************************************************************************)
(* Bounds of the model.                                                    *)
(***************************************************************************)
MaxUnits == 2          \* sentences of a small request
BigUnits == 11         \* sentences of the large request (more than Limit)
NumVariants == 2       \* distinct texts the provider may return for one input
MaxUnitFaults == 2     \* collaborator failures injected into one batch

(***************************************************************************)
(* Program constants.                                                      *)
(***************************************************************************)
Limit == 10
StatusOK == 200
StatusBadRequest == 400
StatusUnprocessableEntity == 422
StatusInternalServerError == 500

(***************************************************************************)
(* Strings.                                                                *)
(***************************************************************************)
IsSpace(c) == c \in {" ", "\n", "\t"}

RECURSIVE TrimLeft(_)
TrimLeft(s) ==
    IF s # << >> /\ IsSpace(Head(s)) THEN TrimLeft(Tail(s)) ELSE s

RECURSIVE TrimRight(_)
TrimRight(s) ==
    IF s # << >> /\ IsSpace(s[Len(s)]) THEN TrimRight(SubSeq(s, 1, Len(s) - 1)) ELSE s

\* a trim that leaves the whitespace at the end
TrimSpaceLeftOnly(s) == TrimLeft(s)

TrimSpace(s) == TrimLeft(TrimRight(s))

\* strings.Contains(s, sub)
Contains(s, sub) ==
    \E i \in 1..(Len(s) - Len(sub) + 1) : SubSeq(s, i, i + Len(sub) - 1) = sub

\* a builder that separates what is written to it with spaces
RECURSIVE ConcatSpaced(_)
ConcatSpaced(ss) ==
    IF ss = << >> THEN << >> ELSE Head(ss) \o <<" ">> \o ConcatSpaced(Tail(ss))

RECURSIVE Concat(_)
Concat(ss) == IF ss = << >> THEN << >> ELSE Head(ss) \o Concat(Tail(ss))


(***************************************************************************)
(* Sentence segmentation (splitSentences, the "en" segmenter): a sentence  *)
(* ends at a terminator that is followed by whitespace or by the end of    *)
(* the input; every sentence is trimmed; blank pieces are dropped.         *)
(***************************************************************************)
IsTerminator(c) == c \in {".", "!", "?"}

RECURSIVE Segment(_, _, _)
Segment(text, i, cur) ==
    IF i > Len(text)
    THEN IF TrimSpace(cur) = << >> THEN << >> ELSE <<TrimSpace(cur)>>
    ELSE IF IsTerminator(text[i]) /\ (i = Len(text) \/ IsSpace(text[i + 1]))
         THEN <<TrimSpace(Append(cur, text[i]))>> \o Segment(text, i + 1, << >>)
         ELSE Segment(text, i + 1, Append(cur, text[i]))

splitSentences(input) == Segment(input, 1, << >>)

(***************************************************************************)
(* Markup.  The tokenizer is golang.org/x/net/html's, restricted to the    *)
(* markup the model feeds it: tags without attributes, no comments, no     *)
(* entities.  A token is [Type, Data]; TokenString is Token.String().      *)
(***************************************************************************)
IsLetter(c) == c \in {"a", "b", "d", "h", "i", "l", "m", "n", "p", "s", "t", "v"}

\* index of the first position >= i holding c, or Len(s) + 1
RECURSIVE IndexFrom(_, _, _)
IndexFrom(s, i, c) ==
    IF i > Len(s) THEN Len(s) + 1
    ELSE IF s[i] = c THEN i ELSE IndexFrom(s, i + 1, c)

\* index of the first position >= i where a tag opens ("<" then a letter or
\* "/"), or Len(s) + 1: everything before it is text
RECURSIVE TagOpenFrom(_, _)
TagOpenFrom(s, i) ==
    IF i >= Len(s) THEN Len(s) + 1
    ELSE IF s[i] = "<" /\ (IsLetter(s[i + 1]) \/ s[i + 1] = "/")
         THEN i
         ELSE TagOpenFrom(s, i + 1)

\* Tokenizer.Next with Tokenizer.Token, from position i: the token and the
\* position after it; Type "Error" is the end of the input (io.EOF)
NextToken(s, i) ==
    IF i > Len(s) THEN [Type |-> "Error", Data |-> << >>, next |-> i]
    ELSE LET o == TagOpenFrom(s, i) IN
      IF o > i
      THEN [Type |-> "Text", Data |-> SubSeq(s, i, o - 1), next |-> o]
      ELSE LET close == IndexFrom(s, i, ">") IN
        IF s[i + 1] = "/"
        THEN IF i + 2 > Len(s)
             THEN [Type |-> "Text", Data |-> SubSeq(s, i, Len(s)), next |-> Len(s) + 1]
             ELSE IF close > Len(s)
             THEN [Type |-> "Error", Data |-> << >>, next |-> Len(s) + 1]
             ELSE IF IsLetter(s[i + 2])
             THEN [Type |-> "EndTag", Data |-> SubSeq(s, i + 2, close - 1), next |-> close + 1]
             ELSE [Type |-> "Comment", Data |-> SubSeq(s, i + 2, close - 1), next |-> close + 1]
        ELSE IF close > Len(s)
             THEN [Type |-> "Error", Data |-> << >>, next |-> Len(s) + 1]
             ELSE IF s[close - 1] = "/"
             THEN [Type |-> "SelfClosingTag", Data |-> SubSeq(s, i + 1, close - 2), next |-> close + 1]
             ELSE [Type |-> "StartTag", Data |-> SubSeq(s, i + 1, close - 1), next |-> close + 1]

TokenString(t) ==
    CASE t.Type = "Text" -> t.Data
      [] t.Type = "StartTag" -> <<"<">> \o t.Data \o <<">">>
      [] t.Type = "EndTag" -> <<"<", "/">> \o t.Data \o <<">">>
      [] t.Type = "SelfClosingTag" -> <<"<">> \o t.Data \o <<"/", ">">>
      [] t.Type = "Comment" -> <<"<", "!", "-", "-">> \o t.Data \o <<"-", "-", ">">>
      [] OTHER -> << >>

\* strings.ToValidUTF8(text, ""): the model's characters are all valid
replaceNonUTF8Characters(text) == text

\* a text node that is kept only when nothing of it survives the trim
HasTextAlways(text) == TRUE

\* `if text != ""`: a trimmed text node contributes sentences and a count
HasText(text) == text # << >>

MaxParsed == 2

\* what tokenizer.Err() is at an ErrorToken: io.EOF at the end of the input,
\* or, with a fault, another error once `after` tokens have been returned.
\* The reader of line 23 is a strings.Reader, which has no error of its own:
\* the fault stands for whatever else the parser may report.
NoParserFault == [fails |-> FALSE, after |-> 0]

ParserFaults ==
    {NoParserFault} \cup {[fails |-> TRUE, after |-> k] : k \in 0..MaxParsed}

\* an error returned together with what was accumulated so far
ParserErrorPartial(tokens, texts, counts) ==
    [tokens |-> tokens, texts |-> texts, counts |-> counts, err |-> TRUE]

\* `return nil, nil, nil, tokenizer.Err()`
ParserError(tokens, texts, counts) ==
    [tokens |-> << >>, texts |-> << >>, counts |-> << >>, err |-> TRUE]

\* a loop that keeps a text token only when it bears text
AppendTokenUnlessBlank(tokens, tok) ==
    IF tok.Type = "Text" /\ TrimSpace(tok.Data) = << >>
    THEN tokens
    ELSE Append(tokens, tok)

\* `tokens = append(tokens, tokenizer.Token())`
AppendToken(tokens, tok) == Append(tokens, tok)

\* sentences put in front of the ones found before
PrependSentences(texts, found) == found \o texts

\* `texts = append(texts, sentences...)`
AppendSentences(texts, found) == texts \o found

\* the loop of getTextFromHTML from position i with the accumulated results
RECURSIVE TokenizeFrom(_, _, _, _, _, _)
TokenizeFrom(s, i, tokens, texts, counts, fault) ==
    LET t == NextToken(s, i)
        tok == [Type |-> t.Type, Data |-> t.Data]
        text == TrimSpace(t.Data)
        found == splitSentences(text)
    IN IF fault.fails /\ Len(tokens) = fault.after
       THEN ParserError(tokens, texts, counts)
       ELSE IF t.Type = "Error"
       THEN [tokens |-> tokens, texts |-> texts, counts |-> counts, err |-> FALSE]
       ELSE IF t.Type = "Text" /\ HasText(text)
       THEN TokenizeFrom(s, t.next, AppendToken(tokens, tok),
                         AppendSentences(texts, found),
                         Append(counts, Len(found)), fault)
       ELSE TokenizeFrom(s, t.next, AppendToken(tokens, tok), texts, counts, fault)

getTextFromHTML(input, fault) ==
    TokenizeFrom(replaceNonUTF8Characters(input), 1, << >>, << >>, << >>, fault)

\* a classifier that wants the opener's tag closed by ">"
isHTMLClosedTag(text) ==
    \E i \in 1..Len(text) :
        /\ text[i] = ">"
        /\ \/ Contains(SubSeq(text, 1, i), <<"<", "h", "t", "m", "l">>)
           \/ Contains(SubSeq(text, 1, i), <<"<", "p">>)
           \/ Contains(SubSeq(text, 1, i), <<"<", "d", "i", "v">>)
           \/ Contains(SubSeq(text, 1, i), <<"<", "s", "p", "a", "n">>)

isHTML(text) ==
    \/ Contains(text, <<"<", "h", "t", "m", "l">>)
    \/ Contains(text, <<"<", "p">>)
    \/ Contains(text, <<"<", "d", "i", "v">>)
    \/ Contains(text, <<"<", "s", "p", "a", "n">>)

\* a node that is left empty when the list cannot fill all of its count
EmittedAllOrNothing(count, avail) == IF count <= avail THEN count ELSE 0

\* a node that drains the list whatever its count
EmittedGreedy(count, avail) == avail

\* `for range count { if textIndex < len(translatedSentences) {...} }`: the
\* number of sentences a node takes when avail of them are still unread
Emitted(count, avail) ==
    IF count < 0 THEN 0 ELSE IF count < avail THEN count ELSE avail

\* a cursor that stays where it is
AdvanceStuck(textIndex, n) == textIndex

\* `textIndex++`, n times
Advance(textIndex, n) == textIndex + n

\* the loop of reconstructHTML over tokens[k..], with the builder sb and the
\* two cursors; panic is the index-out-of-range of sentenceCounts[sentenceIndex].
\* The j-th pass of the inner loop writes translatedSentences[textIndex] (the
\* model's sequences start at 1) and increments textIndex; read lists, for
\* each such pass, the position read and the cursor after it.
RECURSIVE ReconstructFrom(_, _, _, _, _, _, _)
ReconstructFrom(tokens, translated, sentenceCounts, sb, textIndex, sentenceIndex, read) ==
    IF tokens = << >> THEN [out |-> sb, panic |-> FALSE, steps |-> read]
    ELSE LET token == Head(tokens) IN
      IF token.Type = "Text"
      THEN IF sentenceIndex + 1 > Len(sentenceCounts)
           THEN [out |-> sb, panic |-> TRUE, steps |-> read]
           ELSE LET count == sentenceCounts[sentenceIndex + 1]
                    avail == Len(translated) - textIndex
                    m == Emitted(count, avail)
                    at == [j \in 1..m |-> Advance(textIndex, j - 1) + 1]
                IN ReconstructFrom(Tail(tokens), translated, sentenceCounts,
                       sb \o Concat([j \in 1..m |-> translated[at[j]]]),
                       Advance(textIndex, m), sentenceIndex + 1,
                       read \o [j \in 1..m |->
                                  [index |-> at[j], cursor |-> Advance(textIndex, j)]])
      ELSE ReconstructFrom(Tail(tokens), translated, sentenceCounts,
                           sb \o TokenString(token), textIndex, sentenceIndex, read)

reconstructHTML(tokens, translated, sentenceCounts) ==
    ReconstructFrom(tokens, translated, sentenceCounts, << >>, 0, 0, << >>)

\* a builder loop that writes the sentences without the space
RECURSIVE JoinWithoutSpace(_)
JoinWithoutSpace(ss) ==
    IF ss = << >> THEN << >> ELSE Head(ss) \o JoinWithoutSpace(Tail(ss))

RECURSIVE JoinWithSpace(_)
JoinWithSpace(ss) ==
    IF ss = << >> THEN << >> ELSE Head(ss) \o <<" ">> \o JoinWithSpace(Tail(ss))

\* the joined sentences with the separator after the last one left in
reconstructPlainTextUntrimmed(translated) == JoinWithSpace(translated)

reconstructPlainText(translated) == TrimSpace(JoinWithSpace(translated))

(***************************************************************************)
(* Cache keys and entries.                                                 *)
(***************************************************************************)
\* fmt.Sprintf("%s-%s-%s", sourceLanguage, targetLanguage, text)
hashKey(sourceLanguage, targetLanguage, text) ==
    sourceLanguage \o <<"-">> \o targetLanguage \o <<"-">> \o text

\* sha256 is taken as injective: a digest is represented by the text hashed
getHashFromText(text) == text

\* the zero CacheItem
NoItem ==
    [Hash |-> << >>, TranslatedText |-> << >>, SourceText |-> << >>,
     SourceLanguage |-> << >>, TargetLanguage |-> << >>]

\* GetItem: the item stored under the hash, or NoItem when response.Item is nil
GetItem(table, hash) ==
    IF \E it \in table : it.Hash = hash
    THEN CHOOSE it \in table : it.Hash = hash
    ELSE NoItem

\* PutItem: the table with the item replacing any item of the same hash
PutItem(table, item) ==
    {it \in table : it.Hash # item.Hash} \cup {item}

\* a text the provider returns for a sentence: variant v of its translation
ProviderText(v, text) == <<"T", ToString(v)>> \o text

(***************************************************************************)
(* Inputs.                                                                 *)
(***************************************************************************)
En == <<"e", "n">>
Es == <<"e", "s">>
Xx == <<"x", "x">>

BaseSentences == {<<"a", ".">>, <<"b", ".">>}

\* the sentences separated by single spaces
RECURSIVE PlainOf(_)
PlainOf(ss) ==
    IF ss = << >> THEN << >>
    ELSE IF Len(ss) = 1 THEN Head(ss)
    ELSE Head(ss) \o <<" ">> \o PlainOf(Tail(ss))

Paragraph(text) == <<"<", "p", ">">> \o text \o <<"<", "/", "p", ">">>

SentenceLists(n) == UNION {[1..k -> BaseSentences] : k \in 0..n}

PlainTexts == {PlainOf(ss) : ss \in SentenceLists(MaxUnits)}

MarkupTexts ==
    {Paragraph(PlainOf(ss)) : ss \in SentenceLists(MaxUnits) \ {<< >>}}
    \cup {Paragraph(<<"a", ".">>) \o <<" ">> \o Paragraph(<<"b", ".">>)}

\* a text that is not empty and holds no sentence
BlankText == <<" ">>

BigText == PlainOf([i \in 1..BigUnits |-> <<"a", ".">>])

\* an entry as an earlier request of (source, target, text) left it
StoredItem(source, target, text) ==
    [Hash |-> getHashFromText(hashKey(source, target, text)),
     TranslatedText |-> <<"C">> \o text,
     SourceText |-> text,
     SourceLanguage |-> source,
     TargetLanguage |-> target]

Tables == SUBSET {StoredItem(En, Es, t) : t \in BaseSentences}

Request(source, target, text) ==
    [valid |-> TRUE, SourceLanguage |-> source, TargetLanguage |-> target, Text |-> text]

\* a body json.Unmarshal rejects
InvalidBody ==
    [valid |-> FALSE, SourceLanguage |-> << >>, TargetLanguage |-> << >>, Text |-> << >>]

NoErr == [idx |-> 0, kind |-> "none"]

NoResponse == [StatusCode |-> 0, Body |-> "", translated_text |-> << >>]

QueuedTask ==
    [pc |-> "queued", index |-> 0, token |-> << >>, useCache |-> FALSE,
     cacheItem |-> NoItem, translateResponse |-> << >>, err |-> "none"]

InitLocals ==
    /\ pc = "start"
    /\ response = NoResponse
    /\ htmlContent = FALSE
    /\ htmlTokens = << >>
    /\ sentences = << >>
    /\ wordCounts = << >>
    /\ translatedSentences = << >>
    /\ task = << >>
    /\ launched = 0
    /\ groupErr = NoErr
    /\ cancelled = FALSE
    /\ listed = "none"
    /\ calls = {}
    /\ writes = << >>
    /\ outOfOrder = FALSE
    /\ previous = NoResponse
    /\ steps = << >>

InitSmall ==
    /\ event \in {InvalidBody} \cup
                 {Request(s, t, x) : s \in {<< >>, En}, t \in {<< >>, Es, Xx},
                                     x \in PlainTexts \cup MarkupTexts \cup {BlankText}}
    /\ languages \in {<<Es>>, << >>}
    /\ cache \in Tables
    /\ faultsLeft = MaxUnitFaults

InitBig ==
    /\ event = Request(En, Es, BigText)
    /\ languages = <<Es>>
    /\ cache = {StoredItem(En, Es, t) : t \in BaseSentences}
    /\ faultsLeft = 0

Init == InitLocals /\ (InitSmall \/ InitBig)

(***************************************************************************)
(* handle, up to the launch loop.                                          *)
(***************************************************************************)
\* a validation that lets an empty text through
validateRequestNoText(request) ==
    IF request.SourceLanguage = << >> THEN "source_language is required"
    ELSE IF request.TargetLanguage = << >> THEN "target_language is required"
    ELSE ""

\* a validation that looks at the target language first
validateRequestTargetFirst(request) ==
    IF request.TargetLanguage = << >> THEN "target_language is required"
    ELSE IF request.SourceLanguage = << >> THEN "source_language is required"
    ELSE IF request.Text = << >> THEN "text is required"
    ELSE ""

\* validateRequest: the error message, or "" for nil
validateRequest(request) ==
    IF request.SourceLanguage = << >> THEN "source_language is required"
    ELSE IF request.TargetLanguage = << >> THEN "target_language is required"
    ELSE IF request.Text = << >> THEN "text is required"
    ELSE ""

\* slices.Contains(languages, targetLanguage)
SliceContains(list, x) == \E i \in 1..Len(list) : list[i] = x

\* a check that reports a failed list call as an unsupported target
TargetCheckErrorSwallowed(outcome, list, targetLanguage) ==
    [supported |-> outcome = "ok" /\ SliceContains(list, targetLanguage),
     err |-> FALSE]

\* a check that accepts every target once the list was fetched
TargetAlwaysSupported(outcome, list, targetLanguage) ==
    [supported |-> outcome = "ok", err |-> outcome # "ok"]

\* doesTargetLanguageExist, for an outcome of ListLanguages: "ok" (the list),
\* "nil" (out.Languages == nil), "err" (the call failed)
doesTargetLanguageExist(outcome, list, targetLanguage) ==
    IF outcome = "ok"
    THEN [supported |-> SliceContains(list, targetLanguage), err |-> FALSE]
    ELSE [supported |-> FALSE, err |-> TRUE]

ErrorResponse(status, body) ==
    [StatusCode |-> status, Body |-> body, translated_text |-> << >>]

\* a call started: by which task, with a cancelled context or not, and whether
\* a task of the batch had failed by then
Call(op, i, cancelledNow) ==
    [op |-> op, idx |-> i, cancelled |-> cancelledNow, afterFailure |-> groupErr # NoErr]

\* handle returns before the batch: pc, response and the call log change
Return(resp, log, outcome) ==
    /\ pc' = "done"
    /\ response' = resp
    /\ calls' = log
    /\ listed' = outcome
    /\ UNCHANGED <<previous, steps, event, languages, cache, faultsLeft, htmlContent, htmlTokens,
                   sentences, wordCounts, translatedSentences, task, launched,
                   groupErr, cancelled, writes, outOfOrder>>

\* lines 120-178: decode, validate, check the target language, split the text
\* into sentences, create the errgroup and the result slots
HandleStart ==
    /\ pc = "start"
    /\ IF ~event.valid
       THEN Return(ErrorResponse(StatusBadRequest, "Invalid request format"), calls, "none")
       ELSE IF validateRequest(event) # ""
       THEN Return(ErrorResponse(StatusBadRequest, validateRequest(event)), calls, "none")
       ELSE \E outcome \in {"ok", "nil", "err"}, fault \in ParserFaults :
         LET check == doesTargetLanguageExist(outcome, languages, event.TargetLanguage)
             logged == calls \cup {Call("list", 0, FALSE)}
             markup == isHTML(event.Text)
             parsed == getTextFromHTML(event.Text, fault)
             units == IF markup THEN parsed.texts ELSE splitSentences(event.Text)
         IN IF check.err
            THEN Return(ErrorResponse(StatusInternalServerError,
                                      "Error checking supported languages"),
                        logged, outcome)
            ELSE IF ~check.supported
            THEN Return(ErrorResponse(StatusUnprocessableEntity,
                                      "Target language not supported"),
                        logged, outcome)
            ELSE IF markup /\ parsed.err
            THEN Return(ErrorResponse(StatusInternalServerError,
                                      "Error processing HTML content"),
                        logged, outcome)
            ELSE /\ pc' = "launch"
                 /\ calls' = logged
                 /\ listed' = outcome
                 /\ htmlContent' = markup
                 /\ htmlTokens' = IF markup THEN parsed.tokens ELSE << >>
                 /\ wordCounts' = IF markup THEN parsed.counts ELSE << >>
                 /\ sentences' = units
                 /\ translatedSentences' = [i \in 1..Len(units) |-> << >>]
                 /\ task' = [i \in 1..Len(units) |-> QueuedTask]
                 /\ writes' = [i \in 1..Len(units) |-> << >>]
                 /\ UNCHANGED <<previous, steps, event, languages, cache, faultsLeft, response,
                                launched, groupErr, cancelled, outOfOrder>>

(***************************************************************************)
(* The errgroup and its tasks.                                             *)
(***************************************************************************)
Units == 1..Len(sentences)

Running(i) == task[i].pc \in {"get", "translate", "put"}

Finished(i) == task[i].pc \in {"ok", "failed"}

InFlight == Cardinality({i \in Units : Running(i)})

\* a limit whose tokens are never given back
MayStartTokensKept == launched < Limit

\* a group without a limit
MayStartUnlimited == TRUE

\* errGroup.SetLimit(10): Go blocks while the limit's tokens are all taken
MayStart == InFlight < Limit

\* the request's context, which the group never cancels
CallContextParent == FALSE

\* the context the closures pass to the collaborators is groupCtx
CallContextCancelled == cancelled

\* one index variable shared by every closure, read after the loop ended
CapturedIndexShared(i) == Len(sentences)

\* index := idx, token := tok
CapturedIndex(i) == i

CapturedToken(i) == sentences[i]

\* a write at the first free slot, as an append to a shared slice would do
WriteSlotAppend(slots, index, text) ==
    IF \E k \in DOMAIN slots : slots[k] = << >>
    THEN [slots EXCEPT ![CHOOSE k \in DOMAIN slots :
                            slots[k] = << >> /\ \A j \in 1..(k - 1) : slots[j] # << >>] = text]
    ELSE slots

\* translatedSentences[index] = text
WriteSlot(slots, index, text) == [slots EXCEPT ![index] = text]

\* the key shouldCacheBeUsed looks up
LookupHash(sourceLanguage, targetLanguage, text) ==
    getHashFromText(hashKey(sourceLanguage, targetLanguage, text))

\* the item keyed with the language pair in the wrong order
BuildCacheItemSwappedKey(translated, token) ==
    [Hash |-> getHashFromText(hashKey(event.TargetLanguage, event.SourceLanguage, token)),
     TranslatedText |-> translated,
     SourceText |-> token,
     SourceLanguage |-> event.SourceLanguage,
     TargetLanguage |-> event.TargetLanguage]

\* lines 200-206: the item a task stores after a miss
BuildCacheItem(translated, token) ==
    [Hash |-> getHashFromText(hashKey(event.SourceLanguage, event.TargetLanguage, token)),
     TranslatedText |-> translated,
     SourceText |-> token,
     SourceLanguage |-> event.SourceLanguage,
     TargetLanguage |-> event.TargetLanguage]

\* a collaborator call may fail while failures remain to inject, and always
\* once the context it was given is cancelled
MayFail == faultsLeft > 0 \/ cancelled

\* errGroup.Go(i): an iteration of the launch loop; the closure starts and
\* issues its cache lookup
Go(i) ==
    /\ pc = "launch"
    /\ i = launched + 1
    /\ i \in Units
    /\ MayStart
    /\ launched' = i
    /\ task' = [task EXCEPT ![i] = [QueuedTask EXCEPT !.pc = "get",
                                       !.index = CapturedIndex(i),
                                       !.token = CapturedToken(i)]]
    /\ calls' = calls \cup {Call("get", i, CallContextCancelled)}
    /\ UNCHANGED <<previous, steps, event, languages, cache, faultsLeft, pc, response, htmlContent,
                   htmlTokens, sentences, wordCounts, translatedSentences,
                   groupErr, cancelled, listed, writes, outOfOrder>>

\* a closure that swallows its error
FirstErrorDropped(old, new) == old

\* errOnce.Do: the group keeps the first error only
FirstError(old, new) == IF old = NoErr THEN new ELSE old

\* whether task i returns while a task launched before it is still running
Overtakes(i) == outOfOrder \/ \E j \in 1..(i - 1) : Running(j)

\* the wrong attribute of the item
CachedSourceText(item) == item.SourceText

\* line 191: the text a cache hit yields
CachedText(item) == item.TranslatedText

\* the closure returns an error: errOnce keeps the first, cancels groupCtx
Fail(i, kind) ==
    /\ MayFail
    /\ task' = [task EXCEPT ![i].pc = "failed", ![i].err = kind]
    /\ groupErr' = FirstError(groupErr, [idx |-> i, kind |-> kind])
    /\ outOfOrder' = Overtakes(i)
    /\ faultsLeft' = IF cancelled \/ faultsLeft = 0 THEN faultsLeft ELSE faultsLeft - 1
    /\ cancelled' = TRUE
    /\ UNCHANGED <<previous, steps, event, languages, cache, pc, response, htmlContent, htmlTokens,
                   sentences, wordCounts, translatedSentences, launched, listed,
                   calls, writes>>

\* a lookup whose result is never taken for a hit
IsHitNever(item) == FALSE

\* `if response.Item == nil { return CacheItem{}, false, nil }`, else a hit
IsHit(item) == item # NoItem

\* shouldCacheBeUsed returns to the closure (lines 184-195)
GetItemReturn(i) ==
    /\ pc = "launch"
    /\ i \in Units
    /\ task[i].pc = "get"
    /\ \/ Fail(i, "get")
       \/ LET item == GetItem(cache, LookupHash(event.SourceLanguage,
                                                event.TargetLanguage, task[i].token))
          IN IF IsHit(item)
             THEN /\ task' = [task EXCEPT ![i].pc = "ok", ![i].useCache = TRUE,
                                          ![i].cacheItem = item]
                  /\ translatedSentences' =
                         WriteSlot(translatedSentences, task[i].index, CachedText(item))
                  /\ writes' = [writes EXCEPT ![task[i].index] = Append(@, i)]
                  /\ outOfOrder' = Overtakes(i)
                  /\ UNCHANGED <<previous, steps, event, languages, cache, faultsLeft, pc, response,
                                 htmlContent, htmlTokens, sentences, wordCounts,
                                 launched, groupErr, cancelled, listed, calls>>
             ELSE /\ task' = [task EXCEPT ![i].pc = "translate"]
                  /\ calls' = calls \cup {Call("translate", i, CallContextCancelled)}
                  /\ UNCHANGED <<previous, steps, event, languages, cache, faultsLeft, pc, response,
                                 htmlContent, htmlTokens, sentences, wordCounts,
                                 translatedSentences, launched, groupErr, cancelled,
                                 listed, writes, outOfOrder>>

\* translateLanguage returns to the closure (lines 195-208)
TranslateTextReturn(i) ==
    /\ pc = "launch"
    /\ i \in Units
    /\ task[i].pc = "translate"
    /\ \/ Fail(i, "translate")
       \/ \E v \in 1..NumVariants :
            LET translated == ProviderText(v, task[i].token) IN
            /\ task' = [task EXCEPT ![i].pc = "put",
                                    ![i].translateResponse = translated,
                                    ![i].cacheItem = BuildCacheItem(translated, task[i].token)]
            /\ calls' = calls \cup {Call("put", i, CallContextCancelled)}
            /\ UNCHANGED <<previous, steps, event, languages, cache, faultsLeft, pc, response,
                           htmlContent, htmlTokens, sentences, wordCounts,
                           translatedSentences, launched, groupErr, cancelled,
                           listed, writes, outOfOrder>>

\* cacheTranslatedText returns to the closure (lines 208-214)
PutItemReturn(i) ==
    /\ pc = "launch"
    /\ i \in Units
    /\ task[i].pc = "put"
    /\ \/ Fail(i, "put")
       \/ /\ cache' = PutItem(cache, task[i].cacheItem)
          /\ task' = [task EXCEPT ![i].pc = "ok"]
          /\ translatedSentences' =
                 WriteSlot(translatedSentences, task[i].index, task[i].translateResponse)
          /\ writes' = [writes EXCEPT ![task[i].index] = Append(@, i)]
          /\ outOfOrder' = Overtakes(i)
          /\ UNCHANGED <<previous, steps, event, languages, faultsLeft, pc, response, htmlContent,
                         htmlTokens, sentences, wordCounts, launched, groupErr,
                         cancelled, listed, calls>>

\* a Wait that returns once the loop is through, whatever still runs
WaitReturnsAfterLaunch == launched = Len(sentences)

\* errGroup.Wait blocks until every closure started with Go has returned;
\* it is called after the loop has started them all
WaitReturns ==
    /\ launched = Len(sentences)
    /\ \A i \in Units : Finished(i)

\* a Wait whose error is dropped
WaitResultIgnored(err) == NoErr

\* what errGroup.Wait returns
WaitResult(err) == err

\* an error branch that deletes what the table holds
TableRolledBack(table, err) == IF err # NoErr THEN {} ELSE table

\* lines 219-225: the error branch returns without touching the table
TableAfterWait(table, err) == table

\* lines 218-253: errGroup.Wait returns once the loop has launched every
\* closure and every closure has returned; then the reassembly and the response
Wait ==
    /\ pc = "launch"
    /\ WaitReturns
    /\ pc' = "done"
    /\ cancelled' = TRUE
    /\ cache' = TableAfterWait(cache, WaitResult(groupErr))
    /\ LET rebuilt == reconstructHTML(htmlTokens, translatedSentences, wordCounts) IN
       /\ response' =
            IF WaitResult(groupErr) # NoErr
            THEN ErrorResponse(StatusInternalServerError, "Error during translation")
            ELSE IF htmlContent
            THEN IF rebuilt.panic
                 THEN [StatusCode |-> 0, Body |-> "panic", translated_text |-> << >>]
                 ELSE [StatusCode |-> StatusOK, Body |-> "json",
                       translated_text |-> rebuilt.out]
            ELSE [StatusCode |-> StatusOK, Body |-> "json",
                  translated_text |-> reconstructPlainText(translatedSentences)]
       /\ steps' = IF WaitResult(groupErr) = NoErr /\ htmlContent
                   THEN rebuilt.steps
                   ELSE steps
    /\ UNCHANGED <<previous, event, languages, faultsLeft, htmlContent, htmlTokens,
                   sentences, wordCounts, translatedSentences, task, launched,
                   groupErr, listed, calls, writes, outOfOrder>>

Next ==
    \/ HandleStart
    \/ \E i \in 1..(BigUnits + MaxUnits) : Go(i)
    \/ \E i \in 1..(BigUnits + MaxUnits) : GetItemReturn(i)
    \/ \E i \in 1..(BigUnits + MaxUnits) : TranslateTextReturn(i)
    \/ \E i \in 1..(BigUnits + MaxUnits) : PutItemReturn(i)
    \/ Wait

Spec == Init /\ [][Next]_vars

\* the Lambda runtime calls handle again with the same request, once, after
\* a 200: the table keeps its entries and handle's locals start afresh
Invoke ==
    /\ pc = "done"
    /\ previous = NoResponse
    /\ response.StatusCode = StatusOK
    /\ previous' = response
    /\ pc' = "start"
    /\ response' = NoResponse
    /\ htmlContent' = FALSE
    /\ htmlTokens' = << >>
    /\ sentences' = << >>
    /\ wordCounts' = << >>
    /\ translatedSentences' = << >>
    /\ task' = << >>
    /\ launched' = 0
    /\ groupErr' = NoErr
    /\ cancelled' = FALSE
    /\ listed' = "none"
    /\ calls' = {}
    /\ writes' = << >>
    /\ outOfOrder' = FALSE
    /\ steps' = << >>
    /\ UNCHANGED <<event, languages, cache, faultsLeft>>

\* handle runs on, the Go scheduler runs every goroutine that can run, and
\* every collaborator call returns
Fairness ==
    /\ WF_vars(HandleStart)
    /\ WF_vars(Wait)
    /\ \A i \in 1..(BigUnits + MaxUnits) :
          /\ WF_vars(Go(i))
          /\ WF_vars(GetItemReturn(i))
          /\ WF_vars(TranslateTextReturn(i))
          /\ WF_vars(PutItemReturn(i))

LiveSpec == Init /\ [][Next]_vars /\ Fairness

RerunNext == Next \/ Invoke

RerunSpec == Init /\ [][RerunNext]_vars

(***************************************************************************)
(* Properties.                                                             *)
(***************************************************************************)
\* errGroup.Wait has returned
BatchEnded ==
    pc = "done" /\ response.Body \in {"json", "panic", "Error during translation"}

\* errGroup.Wait has returned nil
BatchSucceeded == pc = "done" /\ response.Body \in {"json", "panic"}

HasCall(op, i) == \E c \in calls : c.op = op /\ c.idx = i

\* what task i obtained for its unit: the cached text or the provider's text
Obtained(i) ==
    IF task[i].useCache THEN task[i].cacheItem.TranslatedText
    ELSE task[i].translateResponse

\* C1: when the batch succeeds, the translated sequence is as long as the unit
\* list and its i-th element is what was obtained for the i-th unit: the text
\* of the entry cached under the unit's key, or a text the provider returned
\* for that unit, whatever the order in which the tasks completed.
C1_OrderPreserved ==
    BatchSucceeded =>
        /\ Len(translatedSentences) = Len(sentences)
        /\ \A i \in Units :
             /\ translatedSentences[i] = Obtained(i)
             /\ task[i].token = sentences[i]
             /\ IF task[i].useCache
                THEN task[i].cacheItem.Hash =
                         LookupHash(event.SourceLanguage, event.TargetLanguage, sentences[i])
                ELSE \E v \in 1..NumVariants :
                         translatedSentences[i] = ProviderText(v, sentences[i])

\* a successful batch of two different units, one served by the cache and one
\* by the provider, in which a later task returned before an earlier one
C1_Witness ==
    /\ BatchSucceeded
    /\ Len(sentences) >= 2
    /\ sentences[1] # sentences[2]
    /\ outOfOrder
    /\ \E i, j \in Units : task[i].useCache /\ ~task[j].useCache

\* C2: if any unit's task failed, handle answers 500 "Error during
\* translation" and the response carries no translated text.
C2_FailureIsTerminal ==
    (pc = "done" /\ \E i \in Units : task[i].pc = "failed") =>
        response = ErrorResponse(StatusInternalServerError, "Error during translation")

\* a failed batch in which another unit's translation was already in its slot
C2_Witness ==
    /\ pc = "done"
    /\ \E i \in Units : task[i].pc = "failed"
    /\ \E j \in Units : task[j].pc = "ok" /\ translatedSentences[j] # << >>
    /\ response.StatusCode = StatusInternalServerError

UnitCall(c) == c.op \in {"get", "translate", "put"}

\* C3 as stated: once a task of the batch has failed, no task starts a cache
\* lookup, a provider call or a cache store.
C3_NoCallAfterFailure == \A c \in calls : UnitCall(c) => ~c.afterFailure

\* C3, amended: a failure cancels the batch's context; the tasks still queued
\* are launched all the same, and every collaborator call a task starts after
\* the failure is given the cancelled context.
C3_CancelledContextPassed ==
    /\ (\E i \in Units : task[i].pc = "failed") => cancelled
    /\ groupErr # NoErr => cancelled
    /\ \A c \in calls : UnitCall(c) => (c.afterFailure => c.cancelled)
    /\ BatchEnded => \A i \in Units : HasCall("get", i)

\* a failed batch in which a task was launched, and looked up the cache, after
\* another task had failed
C3_Witness ==
    /\ BatchEnded
    /\ \E c \in calls : c.op = "get" /\ c.afterFailure /\ c.cancelled
    /\ \E c \in calls : c.op = "translate" /\ c.afterFailure /\ c.cancelled

\* C4: at most 10 tasks have started and not finished, in every state.
C4_BoundedInFlight == InFlight <= 10

\* ten tasks in flight and a unit still waiting to be launched
C4_Witness == InFlight = 10 /\ launched < Len(sentences) /\ pc = "launch"

\* C5: a target language missing from the list ListLanguages returned ends the
\* request with 422 "Target language not supported"; nothing was tokenized or
\* segmented and no lookup, provider call or store was made.
C5_UnsupportedTarget ==
    (pc = "done" /\ listed = "ok"
        /\ ~SliceContains(languages, event.TargetLanguage)) =>
        /\ response = ErrorResponse(StatusUnprocessableEntity,
                                    "Target language not supported")
        /\ \A c \in calls : ~UnitCall(c)
        /\ htmlTokens = << >> /\ sentences = << >> /\ wordCounts = << >>
        /\ task = << >>
        /\ cache \in Tables

\* a markup request for an unsupported target, answered 422
C5_Witness ==
    /\ pc = "done"
    /\ response.StatusCode = StatusUnprocessableEntity
    /\ listed = "ok"
    /\ languages # << >>
    /\ isHTML(event.Text)

UnitHash(i) == LookupHash(event.SourceLanguage, event.TargetLanguage, sentences[i])

\* C6: a unit whose lookup finds an entry gets that entry's translated text in
\* its slot, and issues no provider call and no store.
C6_CacheHit ==
    /\ [](\A i \in Units : task[i].useCache =>
            /\ task[i].pc = "ok"
            /\ ~HasCall("translate", i) /\ ~HasCall("put", i)
            /\ task[i].cacheItem.Hash = UnitHash(i)
            /\ translatedSentences[i] = task[i].cacheItem.TranslatedText)
    /\ [][\A i \in Units : (task[i].pc = "get" /\ task'[i].pc = "ok") =>
            /\ GetItem(cache, UnitHash(i)) # NoItem
            /\ translatedSentences'[i] = GetItem(cache, UnitHash(i)).TranslatedText
            /\ cache' = cache]_vars

\* a unit served from the cache next to a unit that was translated and stored
C6_Witness ==
    \E i, j \in Units :
        /\ task[i].useCache /\ task[i].pc = "ok"
        /\ translatedSentences[i] = <<"C">> \o sentences[i]
        /\ task[j].pc = "ok" /\ HasCall("put", j)

\* the item a unit's miss must store
ExpectedItem(i) ==
    [Hash |-> UnitHash(i),
     TranslatedText |-> task[i].translateResponse,
     SourceText |-> sentences[i],
     SourceLanguage |-> event.SourceLanguage,
     TargetLanguage |-> event.TargetLanguage]

\* C7: on a miss the steps are lookup, provider call, store, slot write: the
\* item stored has the unit's key, sentence, language pair and the provider's
\* text, and the slot gets that text in the step in which the store succeeds.
C7_MissOrder ==
    /\ [](\A i \in Units : ~task[i].useCache =>
            /\ HasCall("translate", i) => HasCall("get", i)
            /\ task[i].pc = "translate" => ~HasCall("put", i) /\ writes[i] = << >>
            /\ HasCall("put", i) =>
                 /\ HasCall("translate", i)
                 /\ task[i].translateResponse # << >>
                 /\ task[i].cacheItem = ExpectedItem(i)
            /\ task[i].pc = "put" => writes[i] = << >> /\ translatedSentences[i] = << >>
            /\ writes[i] # << >> =>
                 /\ task[i].pc = "ok" /\ HasCall("put", i)
                 /\ translatedSentences[i] = task[i].translateResponse)
    /\ [][\A i \in Units : (task[i].pc = "put" /\ task'[i].pc = "ok") =>
            /\ ExpectedItem(i) \in cache'
            /\ translatedSentences[i] = << >>
            /\ translatedSentences'[i] = task[i].translateResponse]_vars

\* a unit that missed, was translated, stored and then written to its slot
C7_Witness ==
    \E i \in Units :
        /\ ~task[i].useCache /\ task[i].pc = "ok"
        /\ writes[i] = <<i>>
        /\ ExpectedItem(i) \in cache
        /\ ExpectedItem(i) \notin UNION Tables

\* the batch was aborted: an error is recorded, the context cancelled, and the
\* response, once given, is the 500
Aborted ==
    /\ groupErr # NoErr
    /\ cancelled
    /\ pc = "done" =>
         response = ErrorResponse(StatusInternalServerError, "Error during translation")

\* C8: a lookup that finds nothing is a miss and goes on to the provider with
\* no error recorded; a failed lookup fails the unit with no provider call and
\* aborts the batch; a failed store fails the unit with its slot unwritten,
\* although the provider's text was obtained, and aborts the batch.
C8_CacheErrors ==
    /\ [](\A i \in Units :
            /\ task[i].err = "get" =>
                 /\ ~HasCall("translate", i) /\ ~HasCall("put", i)
                 /\ writes[i] = << >>
                 /\ Aborted
            /\ task[i].err = "put" =>
                 /\ task[i].translateResponse # << >>
                 /\ writes[i] = << >> /\ translatedSentences[i] = << >>
                 /\ Aborted)
    /\ [][\A i \in Units :
            (/\ task[i].pc = "get"
             /\ task'[i].pc \notin {"get", "failed"}
             /\ GetItem(cache, UnitHash(i)) = NoItem) =>
                /\ task'[i].pc = "translate"
                /\ task'[i].err = "none"
                /\ groupErr' = groupErr
                /\ \E c \in calls' : c.op = "translate" /\ c.idx = i]_vars

\* a batch that ended with a failed lookup for one unit and a failed store for
\* another
C8_Witness ==
    /\ pc = "done"
    /\ \E i, j \in Units : task[i].err = "get" /\ task[j].err = "put"

\* C9: no step removes a cache entry, the table changes only by a task's
\* successful store, and after a failed batch every unit that was stored
\* still has its entry.
C9_NoRollback ==
    /\ [][\A it \in cache : \E kept \in cache' : kept.Hash = it.Hash]_vars
    /\ [][cache' # cache =>
            \E i \in Units : /\ task[i].pc = "put" /\ task'[i].pc = "ok"
                             /\ cache' = PutItem(cache, task[i].cacheItem)]_vars
    /\ []((pc = "done" /\ groupErr # NoErr) =>
            \A i \in Units : (task[i].pc = "ok" /\ ~task[i].useCache) =>
                \E it \in cache : /\ it.Hash = task[i].cacheItem.Hash
                                  /\ it.SourceText = task[i].token)

\* a failed batch that left behind the entry one of its units had stored
C9_Witness ==
    /\ pc = "done"
    /\ groupErr # NoErr
    /\ \E i \in Units : /\ task[i].pc = "ok" /\ ~task[i].useCache
                        /\ task[i].cacheItem \in cache
                        /\ task[i].cacheItem \notin UNION Tables

\* C10: a slot is written at most once, and by the task launched for its
\* index; after a successful batch every slot was written exactly once.
C10_WriteOnce ==
    \A k \in DOMAIN writes :
        /\ Len(writes[k]) <= 1
        /\ \A n \in 1..Len(writes[k]) : writes[k][n] = k
        /\ BatchSucceeded => Len(writes[k]) = 1

\* a successful batch of several units, each slot written by its own task
C10_Witness ==
    /\ BatchSucceeded
    /\ Len(sentences) >= 2
    /\ outOfOrder
    /\ \A k \in DOMAIN writes : writes[k] = <<k>>


(***************************************************************************)
(* The functions of html.go and the helpers of main.go on their own.  The  *)
(* argument is the text (and the languages) of the event and the table in  *)
(* cache; the results are left in the locals handle keeps them in.         *)
(***************************************************************************)
MaxTranslated == 3
MaxCount == 2
MaxChars == 4

Zt == <<"z", "-", "t">>
Zz == <<"z">>

\* markup beyond MarkupTexts: whitespace-only and empty text nodes, text
\* outside any element, nesting, a self-closing tag, input ending early
FnMarkups ==
    MarkupTexts \cup
    {<<" ">> \o Paragraph(<<"a", ".">>),
     Paragraph(<<" ">>),
     Paragraph(<< >>),
     Paragraph(<<" ", "a", ".", " ">>),
     <<"a", ".">> \o Paragraph(<<"b", ".">>),
     Paragraph(<<"a", ".">>) \o <<"<", "b">>,
     <<"<", "p", ">", "a", ".", " ", "b", ".">>,
     <<"<", "d", "i", "v", ">">> \o Paragraph(<<"a", ".">>)
         \o Paragraph(<<"b", ".">>) \o <<"<", "/", "d", "i", "v", ">">>,
     Paragraph(<<"a", ".", "<", "b", "/", ">", "b", ".">>)}

\* texts for isHTML: openers cut short, other angle-bracket content
FnTexts ==
    FnMarkups \cup PlainTexts \cup
    {<<"<", "h", "t", "m", "l">>, <<"<", "s", "p", "a", "n">>,
     <<"<", "d", "i", "v">>, <<"x", "<", "p">>,
     <<"<", "s", "p", ">">>, <<"<", "n", "o", "t", ">">>,
     <<"<", "h", "t", "m", ">">>, <<"<", "d", "i", ">">>,
     <<"a", " ", "<", " ", "b">>, <<"<">>, <<"p", ">">>}

\* every plain text of up to MaxChars characters out of a letter, two
\* terminators and the space
CharTexts == UNION {[1..n -> {"a", ".", "?", " "}] : n \in 0..MaxChars}

\* (source, target, sentence) triples, some with "-" in a language code
FnTriples ==
    {<<En, Es, <<"a", ".">>>>, <<En, Es, <<"b", ".">>>>,
     <<Es, En, <<"a", ".">>>>,
     <<En, Zt, <<"a", ".">>>>, <<En, Zz, <<"t", "-", "a", ".">>>>,
     <<En, Zz, <<"a", ".">>>>}

\* translations as a provider may return them
RawSentences ==
    BaseSentences \cup {<<" ", "a", ".">>, <<"a", ".", " ">>, << >>}

JoinLists == UNION {[1..k -> RawSentences] : k \in 0..MaxTranslated}

\* the sentences themselves, or n numbered translations
TranslatedLists(sents) ==
    {sents} \cup {[k \in 1..n |-> <<"T", ToString(k)>>] : n \in 0..MaxTranslated}

TextTokens(tokens) == {k \in DOMAIN tokens : tokens[k].Type = "Text"}

\* the counts getTextFromHTML returned, or any count for each text token
CountLists(tokens, counts) ==
    {counts} \cup [1..Cardinality(TextTokens(tokens)) -> 0..MaxCount]

FnInit ==
    /\ pc = "fn"
    /\ response = NoResponse
    /\ htmlContent = FALSE
    /\ htmlTokens = << >>
    /\ sentences = << >>
    /\ wordCounts = << >>
    /\ translatedSentences = << >>
    /\ task = << >>
    /\ launched = 0
    /\ groupErr = NoErr
    /\ cancelled = FALSE
    /\ listed = "none"
    /\ calls = {}
    /\ writes = << >>
    /\ outOfOrder = FALSE
    /\ previous = NoResponse
    /\ steps = << >>
    /\ languages = <<Es>>
    /\ faultsLeft = 0
    /\ \/ /\ event \in {Request(En, Es, x) : x \in FnTexts \cup CharTexts}
          /\ cache = {}
       \/ \E t1 \in FnTriples, t2 \in FnTriples :
             /\ event = Request(t1[1], t1[2], t1[3])
             /\ cache = {StoredItem(t2[1], t2[2], t2[3])}

FnFrame ==
    UNCHANGED <<previous, event, languages, cache, faultsLeft, launched, groupErr,
                cancelled, listed, calls, writes, outOfOrder>>

\* isHTML(request.Text)
FnClassify ==
    /\ pc = "fn"
    /\ pc' = "classified"
    /\ htmlContent' = isHTML(event.Text)
    /\ UNCHANGED <<steps, response, htmlTokens, sentences, wordCounts,
                   translatedSentences, task>>
    /\ FnFrame

\* getTextFromHTML(request.Text)
FnTokenize ==
    /\ pc = "fn"
    /\ pc' = "tokenized"
    /\ \E fault \in ParserFaults :
         LET r == getTextFromHTML(event.Text, fault) IN
           /\ htmlTokens' = r.tokens
           /\ sentences' = r.texts
           /\ wordCounts' = r.counts
           /\ response' = IF r.err THEN [response EXCEPT !.Body = "err"]
                                   ELSE response
    /\ UNCHANGED <<steps, htmlContent, translatedSentences, task>>
    /\ FnFrame

\* reconstructHTML(htmlTokens, translated, counts)
FnReconstruct ==
    /\ pc = "tokenized"
    /\ response = NoResponse
    /\ pc' = "rebuilt"
    /\ \E tr \in TranslatedLists(sentences),
          counts \in CountLists(htmlTokens, wordCounts) :
         LET r == reconstructHTML(htmlTokens, tr, counts) IN
           /\ translatedSentences' = tr
           /\ wordCounts' = counts
           /\ steps' = r.steps
           /\ response' = [StatusCode |-> 0,
                           Body |-> IF r.panic THEN "panic" ELSE "html",
                           translated_text |-> r.out]
    /\ UNCHANGED <<htmlContent, htmlTokens, sentences, task>>
    /\ FnFrame

\* reconstructPlainText(translated)
FnJoin ==
    /\ pc = "fn"
    /\ pc' = "joined"
    /\ \E tr \in JoinLists :
         /\ translatedSentences' = tr
         /\ response' = [StatusCode |-> 0, Body |-> "plain",
                         translated_text |-> reconstructPlainText(tr)]
    /\ UNCHANGED <<steps, htmlContent, htmlTokens, sentences, wordCounts, task>>
    /\ FnFrame

\* reconstructPlainText(splitSentences(request.Text))
FnSegmentJoin ==
    /\ pc = "fn"
    /\ pc' = "segmented"
    /\ sentences' = splitSentences(event.Text)
    /\ translatedSentences' = sentences'
    /\ response' = [StatusCode |-> 0, Body |-> "plain",
                    translated_text |-> reconstructPlainText(sentences')]
    /\ UNCHANGED <<steps, htmlContent, htmlTokens, wordCounts, task>>
    /\ FnFrame

\* shouldCacheBeUsed(ctx, dynamo, source, target, request.Text) without a fault
FnLookup ==
    /\ pc = "fn"
    /\ pc' = "looked"
    /\ LET item == GetItem(cache, LookupHash(event.SourceLanguage,
                                             event.TargetLanguage, event.Text))
       IN task' = <<[QueuedTask EXCEPT !.token = event.Text,
                                       !.useCache = (item # NoItem),
                                       !.cacheItem = item]>>
    /\ UNCHANGED <<steps, response, htmlContent, htmlTokens, sentences, wordCounts,
                   translatedSentences>>
    /\ FnFrame

FnNext ==
    \/ FnClassify
    \/ FnTokenize
    \/ FnReconstruct
    \/ FnJoin
    \/ FnSegmentJoin
    \/ FnLookup

FnSpec == FnInit /\ [][FnNext]_vars

\* handle and the functions on their own, side by side
AllInit == Init \/ FnInit

AllNext == Next \/ FnNext

AllSpec == AllInit /\ [][AllNext]_vars

(***************************************************************************)
(* Properties of the functions.                                            *)
(***************************************************************************)
\* what getTextFromHTML returns for the text of the event
Tokenized == getTextFromHTML(event.Text, NoParserFault)

\* reconstructHTML has run on the tokens of the event
Rebuilt == pc = "rebuilt"

\* the sentences a token contributed, concatenated, or its string form
LayoutOf(token) ==
    IF token.Type = "Text"
    THEN Concat(splitSentences(TrimSpace(token.Data)))
    ELSE TokenString(token)

Layout(tokens) == Concat([k \in DOMAIN tokens |-> LayoutOf(tokens[k])])

\* C11: tokenize then reconstruct with every sentence standing for itself
\* yields the layout of the markup: every non-text token unchanged and in
\* order, and at each text token exactly the sentences it contributed,
\* whitespace-only text tokens between tags included.
C11_RoundTrip ==
    (/\ Rebuilt
     /\ translatedSentences = Tokenized.texts
     /\ wordCounts = Tokenized.counts)
    => /\ response.Body = "html"
       /\ response.translated_text = Layout(htmlTokens)

RECURSIVE SumSeq(_)
SumSeq(ns) == IF ns = << >> THEN 0 ELSE Head(ns) + SumSeq(Tail(ns))

\* the text tokens that hold something besides whitespace
NonBlankTextTokens(tokens) ==
    {k \in TextTokens(tokens) :
        \E j \in DOMAIN tokens[k].Data : ~IsSpace(tokens[k].Data[j])}

\* C12: in every result of getTextFromHTML the counts sum to the length of
\* the flat sentence list, and there is one count for each text token whose
\* trimmed text is non-empty.
C12_CountsMatchTexts ==
    pc = "tokenized" =>
        /\ SumSeq(wordCounts) = Len(sentences)
        /\ Len(wordCounts) = Cardinality(NonBlankTextTokens(htmlTokens))

\* a result with a blank text token between two nodes that have sentences
C12_Witness ==
    /\ pc = "tokenized"
    /\ Len(wordCounts) >= 2
    /\ Cardinality(TextTokens(htmlTokens)) > Len(wordCounts)
    /\ Len(sentences) = 2

\* the strings of a list one after the other
RECURSIVE FlatUpTo(_, _)
FlatUpTo(ss, n) == IF n = 0 THEN << >> ELSE FlatUpTo(ss, n - 1) \o ss[n]

Flat(ss) == FlatUpTo(ss, Len(ss))

\* the position of text token k among the text tokens
TextRank(tokens, k) == Cardinality({j \in TextTokens(tokens) : j <= k})

\* the sentences the counts assign to the nodes before node r
StartOf(counts, r) == SumSeq(SubSeq(counts, 1, r - 1))

Least(a, b) == IF a < b THEN a ELSE b

\* reconstructHTML was given one count for each text token
OneCountPerTextToken ==
    Rebuilt /\ Len(wordCounts) = Cardinality(TextTokens(htmlTokens))

\* what token k stands for in the output: for a text token the sentences
\* from its start up to its count, as far as the list goes
PieceOf(tokens, translated, counts, k) ==
    IF tokens[k].Type = "Text"
    THEN LET r == TextRank(tokens, k)
             from == Least(StartOf(counts, r), Len(translated))
             to == Least(StartOf(counts, r) + counts[r], Len(translated))
         IN Flat(SubSeq(translated, from + 1, to))
    ELSE TokenString(tokens[k])

Joined == pc = "joined"

SingleSentenceServed ==
    /\ pc = "done"
    /\ event.valid /\ validateRequest(event) = ""
    /\ listed = "ok" /\ SliceContains(languages, event.TargetLanguage)
    /\ ~isHTML(event.Text)
    /\ Len(splitSentences(event.Text)) = 1
    /\ Len(task) = 1 /\ task[1].pc = "ok"
    /\ task[1].useCache \/ HasCall("put", 1)

TripleOf(item) == <<item.SourceLanguage, item.TargetLanguage, item.SourceText>>

EventTriple == <<event.SourceLanguage, event.TargetLanguage, event.Text>>

\* shouldCacheBeUsed has run for the triple of the event
LookedUp == pc = "looked"

\* C18: the key is a function of (source, target, sentence) and, the hash
\* taken as injective, differs between different triples: for the same
\* language pair and another sentence, and for any other language pair; so a
\* lookup finds only an entry stored for the very triple looked up.
C18_KeysDistinct ==
    LookedUp =>
        /\ \A item \in cache :
              TripleOf(item) # EventTriple =>
                  item.Hash # LookupHash(event.SourceLanguage,
                                         event.TargetLanguage, event.Text)
        /\ task[1].useCache => TripleOf(task[1].cacheItem) = EventTriple

\* the four openers isHTML looks for
Openers ==
    {<<"<", "h", "t", "m", "l">>, <<"<", "p">>, <<"<", "d", "i", "v">>,
     <<"<", "s", "p", "a", "n">>}

\* the characters of w stand in text from position i on
StartsAt(text, i, w) ==
    /\ i + Len(w) - 1 <= Len(text)
    /\ \A j \in 1..Len(w) : text[i + j - 1] = w[j]

\* C19: isHTML answers markup exactly when the text holds one of "<html",
\* "<p", "<div", "<span" somewhere, closed as a tag or not, and plain
\* otherwise (the empty text and text with other angle brackets included);
\* it leaves no error and changes nothing else.
C19_Classify ==
    /\ [](pc = "classified" =>
            /\ htmlContent =
                 (\E i \in 1..Len(event.Text), w \in Openers :
                      StartsAt(event.Text, i, w))
            /\ response = NoResponse /\ groupErr = NoErr)
    /\ [][(pc = "fn" /\ pc' = "classified") =>
            UNCHANGED <<event, languages, cache, faultsLeft, response,
                        htmlTokens, sentences, wordCounts, translatedSentences,
                        task, launched, groupErr, cancelled, listed, calls,
                        writes, outOfOrder>>]_vars

\* an opener that is cut off before its tag closes is markup
C19_Witness ==
    /\ pc = "classified"
    /\ event.Text = <<"<", "h", "t", "m", "l">>
    /\ htmlContent

\* the body was decoded and one of its three fields is empty
MissingField ==
    /\ event.valid
    /\ \/ event.SourceLanguage = << >>
       \/ event.TargetLanguage = << >>
       \/ event.Text = << >>

\* C20: a request whose source language, target language or text is empty is
\* answered 400 before the core runs: the message names the first missing
\* field in the order source_language, target_language, text, and there is
\* no list-languages call, cache lookup, provider call or cache store.
C20_MissingField ==
    /\ []((pc = "done" /\ MissingField) =>
            /\ response.StatusCode = StatusBadRequest
            /\ (response.Body = "source_language is required")
                 <=> (event.SourceLanguage = << >>)
            /\ (response.Body = "target_language is required")
                 <=> (event.SourceLanguage # << >> /\ event.TargetLanguage = << >>)
            /\ (response.Body = "text is required")
                 <=> (/\ event.SourceLanguage # << >>
                      /\ event.TargetLanguage # << >>
                      /\ event.Text = << >>)
            /\ listed = "none" /\ calls = {} /\ writes = << >>
            /\ task = << >> /\ launched = 0 /\ sentences = << >>)
    /\ [][MissingField => (pc' = "done" /\ cache' = cache)]_vars

\* source language and target language both missing: the source is named
C20_Witness ==
    /\ pc = "done"
    /\ event.valid
    /\ event.SourceLanguage = << >> /\ event.TargetLanguage = << >>
    /\ event.Text # << >>
    /\ response.StatusCode = StatusBadRequest
    /\ response.Body = "source_language is required"

\* handle has returned for a decoded request with both languages given, the
\* target being one the provider lists
LanguagesGiven ==
    /\ pc = "done"
    /\ event.valid
    /\ event.SourceLanguage # << >>
    /\ SliceContains(languages, event.TargetLanguage)

\* no call of a task: no cache lookup, no provider call, no cache store
NoUnitCall == \A c \in calls : c.op = "list"

\* C21 as stated: for the empty text the translation succeeds with the empty
\* string, with zero units and zero tasks and no provider or cache call.
C21_EmptySucceeds ==
    (LanguagesGiven /\ event.Text = << >>) =>
        /\ response.StatusCode = StatusOK
        /\ response.translated_text = << >>
        /\ NoUnitCall

\* C21: the empty text never reaches the translation steps: handle answers
\* 400 "text is required" with no call at all, although the steps would
\* classify it plain, find zero sentences and join them to the empty string.
\* A text of whitespace only is what runs them with zero units: zero tasks,
\* no cache or provider call, and 200 with the empty string.
C21_EmptyRejected ==
    /\ [](LanguagesGiven /\ event.Text = << >> =>
            /\ response = ErrorResponse(StatusBadRequest, "text is required")
            /\ calls = {} /\ task = << >> /\ launched = 0
            /\ ~isHTML(event.Text)
            /\ splitSentences(event.Text) = << >>
            /\ reconstructPlainText(splitSentences(event.Text)) = << >>)
    /\ [](LanguagesGiven /\ event.Text = BlankText /\ listed = "ok" =>
            /\ response.StatusCode = StatusOK
            /\ response.translated_text = << >>
            /\ ~htmlContent /\ sentences = << >> /\ task = << >>
            /\ NoUnitCall /\ writes = << >>)
    /\ [][event.Text \in {<< >>, BlankText} => cache' = cache]_vars

\* the empty text with both languages given, answered 400
C21_Witness ==
    /\ LanguagesGiven
    /\ event.Text = << >>
    /\ response.StatusCode = StatusBadRequest
    /\ response.Body = "text is required"

\* the tokens are all of the text: their string forms spell it out up to a
\* tag that the input ends inside of, which the parser drops at end-of-input
Complete(tokens, text) ==
    LET out == Flat([k \in DOMAIN tokens |-> TokenString(tokens[k])]) IN
    \E n \in 0..Len(text) :
        /\ out = SubSeq(text, 1, n)
        /\ n < Len(text) => text[n + 1] = "<"
        /\ \A j \in (n + 1)..Len(text) : text[j] # ">"

\* handle answered that the markup could not be processed
MarkupRejected == response.Body = "Error processing HTML content"

\* C22: getTextFromHTML succeeds with everything accumulated when the parser
\* reaches end-of-input, also inside an unclosed tag and for the empty input;
\* on any other parser error it returns the error with no tokens, sentences
\* or counts, and handle answers 500 "Error processing HTML content" without
\* a cache lookup or a provider call.
C22_TokenizeErrors ==
    /\ [](pc = "tokenized" =>
            IF response.Body = "err"
            THEN htmlTokens = << >> /\ sentences = << >> /\ wordCounts = << >>
            ELSE Complete(htmlTokens, event.Text))
    /\ [](pc \in {"launch", "done"} /\ htmlContent =>
            Complete(htmlTokens, event.Text))
    /\ [](MarkupRejected =>
            /\ pc = "done"
            /\ response.StatusCode = StatusInternalServerError
            /\ isHTML(event.Text)
            /\ htmlTokens = << >> /\ sentences = << >> /\ wordCounts = << >>
            /\ task = << >> /\ launched = 0 /\ NoUnitCall /\ writes = << >>)
    /\ [][MarkupRejected' => cache' = cache]_vars

\* the parser failed on the markup of a valid request with a supported target
C22_Witness ==
    /\ MarkupRejected
    /\ LanguagesGiven
    /\ listed = "ok"
    /\ event.Text = Paragraph(<<"a", ".">>)

\* handle has got past decoding and validation and called ListLanguages
LanguagesListed == listed # "none"

\* the language codes ListLanguages returned
ListedCodes == {languages[k] : k \in DOMAIN languages}

\* C23: the target-language check answers true exactly when the target code
\* is in the list ListLanguages returned (false for an empty list, without
\* an error) and fails when ListLanguages fails; handle then answers 500
\* "Error checking supported languages" and no cache lookup or provider call
\* is made.
C23_TargetCheck ==
    /\ [](LanguagesListed /\ listed = "ok" =>
            /\ event.TargetLanguage \notin ListedCodes =>
                 /\ pc = "done"
                 /\ response = ErrorResponse(StatusUnprocessableEntity,
                                             "Target language not supported")
            /\ event.TargetLanguage \in ListedCodes =>
                 /\ response.StatusCode # StatusUnprocessableEntity
                 /\ response.Body # "Error checking supported languages"
                 /\ pc = "done" => response # NoResponse)
    /\ [](LanguagesListed /\ listed # "ok" =>
            /\ pc = "done"
            /\ response = ErrorResponse(StatusInternalServerError,
                                        "Error checking supported languages")
            /\ NoUnitCall /\ task = << >> /\ launched = 0 /\ writes = << >>)
    /\ [][(pc = "start" /\ listed' # "ok") => cache' = cache]_vars

\* ListLanguages failed for a request whose target the provider supports
C23_Witness ==
    /\ listed = "err"
    /\ event.TargetLanguage = Es /\ languages = <<Es>>
    /\ response.StatusCode = StatusInternalServerError
    /\ response.Body = "Error checking supported languages"

\* whitespace-normalized and punctuation-terminated: single spaces only,
\* none at either end, and a terminator as the last character
Normalized(text) ==
    /\ text # << >>
    /\ ~IsSpace(text[1])
    /\ IsTerminator(text[Len(text)])
    /\ \A i \in 1..(Len(text) - 1) : ~(IsSpace(text[i]) /\ IsSpace(text[i + 1]))
    /\ \A i \in 1..Len(text) : IsSpace(text[i]) => text[i] = " "

\* C24: for a plain text that is whitespace-normalized and
\* punctuation-terminated, the sentences of splitSentences joined by
\* reconstructPlainText, trimmed, give the text back.
C24_SentenceRoundTrip ==
    (pc = "segmented" /\ Normalized(event.Text)) =>
        /\ response.translated_text = event.Text
        /\ sentences # << >>

\* two sentences with different terminators
C24_Witness ==
    /\ pc = "segmented"
    /\ event.Text = <<"a", ".", " ", "?">>
    /\ sentences = <<<<"a", ".">>, <<"?">>>>
    /\ response.translated_text = event.Text

\* C25: on the tokens and counts getTextFromHTML produced for any markup,
\* and with any translated list, reconstructHTML moves its count cursor once
\* per text-bearing token, so the cursor stays inside the counts list and
\* reconstructHTML returns without failing.
C25_CursorInRange ==
    (/\ Rebuilt
     /\ htmlTokens = Tokenized.tokens
     /\ wordCounts = Tokenized.counts)
    => /\ response.Body # "panic"
       /\ Cardinality(TextTokens(htmlTokens)) <= Len(wordCounts)

\* getTextFromHTML has returned without an error
TokenizedOk == pc = "tokenized" /\ response.Body # "err"

\* the tokens the parser yields from position i up to the end of the input
RECURSIVE ParserTokens(_, _)
ParserTokens(s, i) ==
    LET t == NextToken(s, i) IN
    IF t.Type = "Error" THEN << >>
    ELSE <<[Type |-> t.Type, Data |-> t.Data]>> \o ParserTokens(s, t.next)

\* the sentences of the text tokens among the first k tokens, in order
RECURSIVE SentencesUpTo(_, _)
SentencesUpTo(tokens, k) ==
    IF k = 0 THEN << >>
    ELSE SentencesUpTo(tokens, k - 1) \o
         (IF tokens[k].Type = "Text"
          THEN splitSentences(TrimSpace(tokens[k].Data))
          ELSE << >>)

\* C26: getTextFromHTML appends every token the parser yields, text-bearing
\* or not, in document order; a text token whose trimmed text is empty is in
\* the token sequence and adds nothing to the sentences or the counts.
C26_EveryTokenKept ==
    TokenizedOk =>
        /\ htmlTokens = ParserTokens(event.Text, 1)
        /\ \A k \in TextTokens(htmlTokens) \ NonBlankTextTokens(htmlTokens) :
              /\ SentencesUpTo(htmlTokens, k) = SentencesUpTo(htmlTokens, k - 1)
              /\ Cardinality({j \in NonBlankTextTokens(htmlTokens) : j <= k})
                   = Cardinality({j \in NonBlankTextTokens(htmlTokens) : j < k})
        /\ Len(sentences) = Len(SentencesUpTo(htmlTokens, Len(htmlTokens)))
        /\ Len(wordCounts) = Cardinality(NonBlankTextTokens(htmlTokens))

\* a blank text token kept between two paragraphs
C26_Witness ==
    /\ TokenizedOk
    /\ Len(htmlTokens) = 7
    /\ htmlTokens[4] = [Type |-> "Text", Data |-> <<" ">>]
    /\ sentences = <<<<"a", ".">>, <<"b", ".">>>>
    /\ wordCounts = <<1, 1>>

\* the n-th text token with non-empty trimmed text
NthNonBlank(tokens, n) ==
    CHOOSE k \in NonBlankTextTokens(tokens) :
        Cardinality({j \in NonBlankTextTokens(tokens) : j <= k}) = n

\* C27: the flat sentence list of getTextFromHTML is the segmenter's output
\* for each text token with non-empty trimmed text, one after the other in
\* token order, and the i-th count is the number of sentences the i-th such
\* token contributed.
C27_FlatSentences ==
    TokenizedOk =>
        /\ sentences = SentencesUpTo(htmlTokens, Len(htmlTokens))
        /\ Len(wordCounts) = Cardinality(NonBlankTextTokens(htmlTokens))
        /\ \A n \in DOMAIN wordCounts :
              LET k == NthNonBlank(htmlTokens, n) IN
              /\ wordCounts[n] = Len(splitSentences(TrimSpace(htmlTokens[k].Data)))
              /\ SubSeq(sentences, StartOf(wordCounts, n) + 1,
                        StartOf(wordCounts, n) + wordCounts[n])
                   = splitSentences(TrimSpace(htmlTokens[k].Data))

\* two text tokens around a tag, each with its own sentence
C27_Witness ==
    /\ TokenizedOk
    /\ event.Text = Paragraph(<<"a", ".", "<", "b", "/", ">", "b", ".">>)
    /\ sentences = <<<<"a", ".">>, <<"b", ".">>>>
    /\ wordCounts = <<1, 1>>

\* the result slots have been read for the reassembly
SlotsRead == response.Body \in {"json", "panic"}

\* C28: the result slots are read for the reassembly only after every task
\* of the batch has terminated: none is read while a task is still queued or
\* in flight, and none is written after the read.
C28_ReadAfterAllDone ==
    /\ [](SlotsRead =>
            /\ Len(task) = Len(sentences) /\ launched = Len(sentences)
            /\ \A i \in Units : task[i].pc = "ok")
    /\ [][(~SlotsRead /\ SlotsRead') =>
            /\ launched = Len(sentences)
            /\ \A i \in Units : Finished(i)
            /\ translatedSentences' = translatedSentences]_vars
    /\ [][SlotsRead => translatedSentences' = translatedSentences]_vars

\* the read happened after two tasks that returned out of launch order
C28_Witness ==
    /\ SlotsRead
    /\ response.StatusCode = StatusOK
    /\ Len(sentences) = 2
    /\ outOfOrder

\* C29: a cache entry is never mutated once created: a later store under the
\* same fingerprint, also the concurrent stores of two units of one batch
\* that carry the same sentence and both miss, leaves the entry's translated
\* text as first stored, whatever the interleaving.
C29_EntryNeverMutated ==
    [][\A old \in cache :
          \A new \in cache' :
              new.Hash = old.Hash => new.TranslatedText = old.TranslatedText]_vars

\* C30: a cache store is issued only by a unit whose lookup returned a miss
\* and whose provider call succeeded; a unit whose provider call fails
\* issues no store and leaves the cache unchanged; no entry is ever deleted.
C30_StoreOnlyAfterMiss ==
    /\ [](\A i \in DOMAIN task :
            /\ HasCall("put", i) =>
                 /\ HasCall("get", i) /\ HasCall("translate", i)
                 /\ ~task[i].useCache
                 /\ task[i].translateResponse # << >>
                 /\ task[i].err \notin {"get", "translate"}
            /\ task[i].err = "translate" => ~HasCall("put", i))
    /\ [][\A i \in DOMAIN task :
            /\ (task[i].pc = "get" /\ task'[i].pc = "translate") =>
                 GetItem(cache, UnitHash(i)) = NoItem
            /\ (task[i].pc = "translate" /\ task'[i].pc = "put") =>
                 /\ HasCall("put", i)' /\ ~HasCall("put", i)
                 /\ task'[i].translateResponse # << >>
            /\ (task[i].pc = "translate" /\ task'[i].pc = "failed") =>
                 cache' = cache /\ calls' = calls]_vars
    /\ [][/\ \A old \in cache : \E new \in cache' : new.Hash = old.Hash
          /\ cache' # cache =>
               \E i \in DOMAIN task : task[i].pc = "put" /\ task'[i].pc = "ok"]_vars

\* one unit stored after its miss, another failed at the provider and
\* stored nothing
C30_Witness ==
    \E i, j \in DOMAIN task :
        /\ task[i].pc = "ok" /\ HasCall("put", i) /\ ~task[i].useCache
        /\ \E item \in cache : item.TranslatedText = task[i].translateResponse
        /\ task[j].err = "translate" /\ ~HasCall("put", j)

\* this invocation is the second one of the same request, after a 200
Rerun == previous # NoResponse

\* C31: a unit stores its entry under the fingerprint it looked up, so after
\* a batch succeeded the same request, run again on the table that kept the
\* entries, makes no provider call and no store and returns the same
\* translated text.
C31_RerunFromCache ==
    /\ \A i \in DOMAIN task :
          HasCall("put", i) => task[i].cacheItem.Hash = UnitHash(i)
    /\ Rerun =>
          /\ \A c \in calls : c.op \notin {"translate", "put"}
          /\ (pc = "done" /\ response.StatusCode = StatusOK) =>
                response.translated_text = previous.translated_text

\* C32: for any finite list of units, more than Limit of them included, the
\* batch terminates when every collaborator call returns: every unit's task
\* is started and finishes, errGroup.Wait returns, and the launch loop is
\* never stuck at the limit without a running task to free a token.
C32_BatchTerminates ==
    /\ <>(pc = "done")
    /\ (pc = "launch") ~>
          (/\ pc = "done"
           /\ launched = Len(sentences)
           /\ \A i \in Units : Finished(i))
    /\ \A i \in 1..(BigUnits + MaxUnits) :
          (pc = "launch" /\ i \in Units) ~> (i \in Units /\ Finished(i))
    /\ []((pc = "launch" /\ launched < Len(sentences) /\ ~MayStart) =>
            /\ InFlight = Limit
            /\ \E i \in Units : Running(i))

\* a batch of more than Limit units has ended with every task finished
C32_Witness ==
    /\ pc = "done"
    /\ Len(sentences) = BigUnits
    /\ launched = BigUnits
    /\ \A i \in Units : task[i].pc = "ok"
    /\ response.StatusCode = StatusOK

\* C33: handle always ends with a response whose status is 200, 400, 422 or
\* 500, and the status is 200 only when the request was valid, the target
\* language was found in the list, the markup (if any) was tokenized and
\* every unit's task succeeded.
C33_AlwaysAResponse ==
    pc = "done" =>
      /\ response.StatusCode \in {StatusOK, StatusBadRequest,
                                  StatusUnprocessableEntity, StatusInternalServerError}
      /\ response.StatusCode = StatusOK =>
            /\ event.valid
            /\ validateRequest(event) = ""
            /\ listed = "ok"
            /\ event.TargetLanguage \in ListedCodes
            /\ \A i \in Units : task[i].pc = "ok"
            /\ launched = Len(sentences)
            /\ groupErr = NoErr

C33_ExceptPanic == (pc = "done" /\ response.Body = "panic") \/ C33_AlwaysAResponse

\* the cursor before the k-th emission of reconstructHTML
CursorBefore(k) == IF k = 1 THEN 0 ELSE steps[k - 1].cursor

\* C34: during reconstructHTML the cursor into the translated sentences
\* only increases, never exceeds the length of the translated list, and
\* increases by one for each sentence emitted, so that each translated
\* sentence is emitted at most once and the emitted ones keep list order.
C34_CursorMonotone ==
    Rebuilt =>
      /\ \A k \in DOMAIN steps :
            /\ steps[k].cursor = CursorBefore(k) + 1
            /\ steps[k].cursor <= Len(translatedSentences)
            /\ steps[k].index \in DOMAIN translatedSentences
            /\ steps[k].index = CursorBefore(k) + 1
      /\ \A k, l \in DOMAIN steps : k < l => steps[k].index < steps[l].index
      /\ Len(steps) <= Len(translatedSentences)

\* reconstructHTML has emitted three sentences for two text tokens
C34_Witness ==
    /\ Rebuilt
    /\ response.Body = "html"
    /\ wordCounts = <<2, 1>>
    /\ Len(translatedSentences) = 3
    /\ Len(steps) = 3
    /\ steps[3].cursor = 3

=========================================================================
